---- MODULE Spec2Model ----
(***************************************************************************)
(* Correction chains of pcwg/core/corrections.py.                          *)
(*                                                                         *)
(* Python objects are records whose fields are the attributes assigned so  *)
(* far (an attribute that was never assigned is not in the DOMAIN).        *)
(* Composite names are sequences of tokens: a label is one token, and the  *)
(* separators " & " and ", " are tokens of their own (no label contains    *)
(* "&").  Str flattens a token sequence to the string it denotes; column   *)
(* names and status messages are such strings.                             *)
(* Each constructor is an operator that yields the outcome of the call and *)
(* the sequence of its effects in statement order; Construct applies the   *)
(* effects to the shared state (dataset, status sink, deviation matrix).   *)
(***************************************************************************)
EXTENDS Integers, Sequences, FiniteSets, TLC

VARIABLES nodes, data_frame, status, pdm, last

vars == <<nodes, data_frame, status, pdm, last>>

\* Largest number of node objects (Sources and corrections) kept.
MaxNodes == 4

None == "None"

\* ---------------------------------------------------------------- strings

RECURSIVE Str(_)
Str(tokens) == IF tokens = <<>> THEN "" ELSE Head(tokens) \o Str(Tail(tokens))

\* "&" in name
ContainsAmp(name) == \E i \in DOMAIN name : name[i] = " & "

\* name.replace(" & ", ", "): every occurrence is replaced
Replace(name) == [i \in DOMAIN name |-> IF name[i] = " & " THEN ", " ELSE name[i]]

\* "{0:.2f}%".format(fraction * 100.0), the fraction given in 1/10000
Pct(f) ==
    ToString(f \div 100) \o "." \o ToString((f % 100) \div 10) \o ToString(f % 10) \o "%"

\* ----------------------------------------------------------------- inputs

BaseColumns == {"WS", "Hub Density", "Hub Turbulence"}

PowerCurves == {None, "PowerCurve"}

\* (rewsExponent in tenths, its text, rewsVeer, rewsUpflow, power_curve)
RewsInputs ==
    { [exponent |-> 30, text |-> "3.0", veer |-> FALSE, upflow |-> FALSE, power_curve |-> None],
      [exponent |-> 20, text |-> "2.0", veer |-> TRUE,  upflow |-> FALSE, power_curve |-> "PowerCurve"],
      [exponent |-> 25, text |-> "2.5", veer |-> FALSE, upflow |-> TRUE,  power_curve |-> None] }

\* dimensions of the power deviation matrix
Dimensions ==
    << [parameter |-> "Hub Turbulence", centerOfFirstBin |-> "0.01", centerOfLastBin |-> "0.29"],
       [parameter |-> "Shear Exponent", centerOfFirstBin |-> "-0.2", centerOfLastBin |-> "0.6"] >>

\* out-of-range fractions the matrix can report, in 1/10000
FractionValues == {0, 500, 501, 2000, 2001}

\* fraction_out_of_range > 0.05 and > 0.20, in 1/10000
OrangeFraction == 500

RedFraction == 2000

\* counters of the matrix after reset_out_of_range_count()
ZeroCount == [overall |-> 0, dim |-> [d \in DOMAIN Dimensions |-> [out |-> 0, below |-> 0]]]

\* counters the matrix can hold after the rows were looked up: a row is out
\* of range overall when it is out of range in some dimension
Counts ==
    { [overall |-> c[1],
       dim |-> [d \in DOMAIN Dimensions |-> [out |-> c[d + 1], below |-> c[d + 1]]]] :
        c \in { <<0, 0, 0>>, <<500, 500, 0>>, <<501, 501, 500>>,
                 <<2000, 2000, 501>>, <<2001, 2001, 500>>, <<2001, 2000, 2000>> } }

\* ---------------------------------------------------------------- objects

HasAttr(obj, a) == a \in DOMAIN obj

SetAttr(obj, a, v) == [k \in DOMAIN obj \cup {a} |-> IF k = a THEN v ELSE obj[k]]

StatusAdd(message, red, orange) ==
    [kind |-> "status", message |-> message, red |-> red, orange |-> orange]

Write(column, calculator) == [kind |-> "write", column |-> column, calculator |-> calculator]

Raise(kind, message, events) == [outcome |-> kind, message |-> message, events |-> events]

Return(self, events) == [outcome |-> "ok", self |-> self, events |-> events]

Source(source_column) ==
    [class |-> "Source", source |-> 0, wind_speed_column |-> source_column,
     raw |-> TRUE, wind_speed_based |-> TRUE, power_based |-> FALSE]

\* can_chain that lets every parent be extended
can_chain_any(source) == TRUE

can_chain(source) == source.wind_speed_based

\* calculate_name that keeps the earlier " & "
calculate_name_nested(source, correction_name) ==
    IF source.raw
    THEN correction_name
    ELSE source.correction_name \o <<" & ">> \o correction_name

\* calculate_name that forgets the parent's name
calculate_name_label_only(source, correction_name) == correction_name

calculate_name(source, correction_name) ==
    IF source.raw
    THEN correction_name
    ELSE LET name == source.correction_name
             flat == IF ContainsAmp(name) THEN Replace(name) ELSE name
         IN  flat \o <<" & ">> \o correction_name

\* Correction.__init__; src is the parent object, s its handle
Correction(self, correction_name, src, s, wind_speed_based) ==
    LET called == << [kind |-> "can_chain"] >> IN
    IF ~can_chain(src)
    THEN IF HasAttr(src, "correction_name")
         THEN Raise("Exception",
                    Str(correction_name) \o " cannot follow " \o Str(src.correction_name),
                    called)
         ELSE Raise("AttributeError", "correction_name", called)
    ELSE LET name == calculate_name(src, correction_name)
             obj  == [k \in DOMAIN self \cup
                            {"wind_speed_based", "power_based", "correction_name", "source", "raw"} |->
                        CASE k = "wind_speed_based" -> wind_speed_based
                          [] k = "power_based"      -> ~wind_speed_based
                          [] k = "correction_name"  -> name
                          [] k = "source"           -> s
                          [] k = "raw"              -> FALSE
                          [] OTHER                  -> self[k]]
         IN  Return(obj, called \o
                 <<StatusAdd("Performing " \o Str(name) \o " Correction...", FALSE, FALSE)>>)

WindSpeedBasedCorrection(self, correction_name, src, s) ==
    LET r == Correction(self, correction_name, src, s, TRUE) IN
    IF r.outcome # "ok" THEN r
    ELSE Return(SetAttr(r.self, "wind_speed_column",
                        Str(r.self.correction_name) \o " Wind Speed"),
                r.events)

\* WindSpeedBasedCorrection.finalise
WindSpeedBasedFinalise(self, power_curve) ==
    LET complete == StatusAdd(Str(self.correction_name) \o " Correction Complete.", FALSE, FALSE) IN
    IF power_curve # None
    THEN LET column == Str(self.correction_name) \o " Power" IN
         Return(SetAttr(self, "power_column", column),
                <<Write(column, "PowerCalculator"), complete>>)
    ELSE Return(SetAttr(self, "power_column", None), <<complete>>)

DensityEquivalentWindSpeed(src, s, power_curve) ==
    LET r == WindSpeedBasedCorrection([class |-> "Density", label |-> <<"Density">>],
                                      <<"Density">>, src, s) IN
    IF r.outcome # "ok" THEN r
    ELSE LET self == SetAttr(r.self, "reference_density", "1.2250")
             ev   == r.events \o
                     <<StatusAdd("Correcting to reference density of 1.2250 kg/m^3", FALSE, FALSE),
                       Write(self.wind_speed_column, "DensityCorrectionCalculator")>>
             f    == WindSpeedBasedFinalise(self, power_curve)
         IN  Return(f.self, ev \o f.events)

RotorEquivalentWindSpeed(src, s, rews, power_curve) ==
    LET exponent_type == IF rews.exponent = 30 THEN "REWS"
                         ELSE IF rews.exponent = 20 THEN "RAWS"
                         ELSE "REWS-Exponent=" \o rews.text
        rews_type == "Speed" \o (IF rews.veer THEN "+Veer" ELSE "")
                             \o (IF rews.upflow THEN "+Upflow" ELSE "")
        label == << exponent_type \o " (" \o rews_type \o ")" >>
        r == WindSpeedBasedCorrection([class |-> "REWS", label |-> label], label, src, s)
    IN
    IF r.outcome # "ok" THEN r
    ELSE LET self == SetAttr(SetAttr(SetAttr(r.self,
                        "rews_to_hub_ratio_column", "REWS to Hub Ratio"),
                        "rews_to_hub_deviation_column", "REWS To Hub Ratio Deviation"),
                        "rewsMatrix", "DeviationMatrix")
             ev   == r.events \o
                     <<Write(self.rews_to_hub_ratio_column, "calculate_rews"),
                       Write(self.wind_speed_column, "rews_to_hub_ratio"),
                       StatusAdd("Calculating REWS Deviation Matrix...", FALSE, FALSE),
                       StatusAdd("REWS Deviation Matrix Complete.", FALSE, FALSE)>>
             f    == WindSpeedBasedFinalise(self, power_curve)
         IN  Return(f.self, ev \o f.events)

\* PowerBasedCorrection.__init__ that names the column after the bare label
PowerBasedCorrection_label(self, args) ==
    IF Len(args) # 3
    THEN Raise("TypeError", "__init__() takes exactly 4 arguments", <<>>)
    ELSE LET r == Correction(self, args[1], args[2].object, args[2].handle, FALSE)
         IN  IF r.outcome # "ok" THEN r
             ELSE Return(SetAttr(SetAttr(r.self,
                            "power_column", Str(args[1]) \o " Power"),
                            "power_curve", args[3]),
                         r.events)

\* PowerBasedCorrection.__init__(self, correction_name, source, power_curve),
\* called with the positional arguments args
PowerBasedCorrection(self, args) ==
    IF Len(args) # 3
    THEN Raise("TypeError", "__init__() takes exactly 4 arguments", <<>>)
    ELSE LET correction_name == args[1]
             src == args[2].object
             r == Correction(self, correction_name, src, args[2].handle, FALSE)
         IN  IF r.outcome # "ok" THEN r
             ELSE Return(SetAttr(SetAttr(r.self,
                            "power_column", Str(calculate_name(src, correction_name)) \o " Power"),
                            "power_curve", args[3]),
                         r.events)

\* PowerBasedCorrection.finalise
PowerBasedFinalise(self, calculator) ==
    Return(self, <<Write(self.power_column, calculator),
                   StatusAdd(Str(self.correction_name) \o " Correction Complete.", FALSE, FALSE)>>)

TurbulenceCorrection(src, s, power_curve) ==
    LET r == PowerBasedCorrection([class |-> "Turbulence", label |-> <<"Turbulence">>],
                                  << <<"Turbulence">>, [object |-> src, handle |-> s], power_curve >>) IN
    IF r.outcome # "ok" THEN r
    ELSE LET f == PowerBasedFinalise(r.self, "TurbulencePowerCalculator") IN
         Return(f.self, r.events \o f.events)

\* the reports of one dimension; red and orange are those of the overall fraction
DimensionReports(d, count, red, orange) ==
    <<StatusAdd("-" \o Dimensions[d].parameter \o " values out of range " \o Pct(count.dim[d].out)
                    \o " [" \o Dimensions[d].centerOfFirstBin \o " to "
                    \o Dimensions[d].centerOfLastBin \o "]", red, orange),
      StatusAdd("--" \o Pct(count.dim[d].below) \o " values below", red, orange),
      StatusAdd("--" \o Pct(count.dim[d].out - count.dim[d].below) \o " values above", red, orange)>>

RECURSIVE AllDimensionReports(_, _, _, _)
AllDimensionReports(d, count, red, orange) ==
    IF d > Len(Dimensions) THEN <<>>
    ELSE DimensionReports(d, count, red, orange) \o AllDimensionReports(d + 1, count, red, orange)

\* PowerDeviationMatrixCorrection.__init__ that resets the counters first
PowerDeviationMatrixCorrection_reset_first(src, s, power_curve, after) ==
    LET label == << ToString(Len(Dimensions)) \o "D" \o " Power Deviation Matrix" >>
        r == PowerBasedCorrection([class |-> "PDM", label |-> label],
                                  << label, [object |-> src, handle |-> s], power_curve >>)
    IN
    IF r.outcome # "ok" THEN Raise(r.outcome, r.message, << [kind |-> "reset"] >> \o r.events)
    ELSE LET f == PowerBasedFinalise(r.self, "PowerDeviationMatrixPowerCalculator")
             orange == after.overall > OrangeFraction
             red == after.overall > RedFraction
         IN  Return(f.self,
                    << [kind |-> "reset"] >> \o r.events \o f.events \o
                    <<StatusAdd("Fraction of PDM values out of range " \o Pct(after.overall),
                                red, orange)>> \o
                    AllDimensionReports(1, after, red, orange))

\* after: the counters of the matrix once every row was looked up
PowerDeviationMatrixCorrection(src, s, power_curve, after) ==
    LET label == << ToString(Len(Dimensions)) \o "D" \o " Power Deviation Matrix" >>
        r == PowerBasedCorrection([class |-> "PDM", label |-> label],
                                  << label, [object |-> src, handle |-> s], power_curve >>)
    IN
    IF r.outcome # "ok" THEN r
    ELSE LET f == PowerBasedFinalise(r.self, "PowerDeviationMatrixPowerCalculator")
             fraction_out_of_range == after.overall
             orange == fraction_out_of_range > OrangeFraction
             red == fraction_out_of_range > RedFraction
         IN  Return(f.self,
                    r.events \o << [kind |-> "reset"] >> \o f.events \o
                    <<StatusAdd("Fraction of PDM values out of range " \o Pct(after.overall),
                                red, orange)>> \o
                    AllDimensionReports(1, after, red, orange))

ProductionByHeightCorrection(power_curve, s) ==
    LET r == PowerBasedCorrection(
                 [class |-> "ProductionByHeight", label |-> <<"Production by Height">>],
                 << <<"Production by Height">>, [object |-> Source(None), handle |-> s],
                    power_curve >>) IN
    IF r.outcome # "ok" THEN r
    ELSE Return(r.self, r.events \o <<Write(r.self.power_column, "calculate_production_by_height")>>)

WebServiceCorrection(web_service, s) ==
    LET r == PowerBasedCorrection([class |-> "WebService", label |-> <<"WebService">>],
                                  << <<"WebService">>, [object |-> Source(None), handle |-> s] >>) IN
    IF r.outcome # "ok" THEN r
    ELSE LET f == PowerBasedFinalise(r.self, web_service) IN
         Return(f.self, r.events \o f.events)

\* Source.finalise
SourceFinaliseCall(self, power_curve) ==
    LET complete == StatusAdd(self.wind_speed_column \o " Power Complete.", FALSE, FALSE) IN
    IF power_curve # None
    THEN LET column == self.wind_speed_column \o " Power" IN
         Return(SetAttr(self, "power_column", column),
                <<Write(column, "PowerCalculator"), complete>>)
    ELSE Return(SetAttr(self, "power_column", None), <<complete>>)

\* ------------------------------------------------------------ shared state

RECURSIVE StatusOf(_)
StatusOf(events) ==
    IF events = <<>> THEN <<>>
    ELSE (IF Head(events).kind = "status"
          THEN <<[message |-> Head(events).message, red |-> Head(events).red,
                  orange |-> Head(events).orange]>>
          ELSE <<>>) \o StatusOf(Tail(events))

RECURSIVE Written(_, _, _)
Written(frame, events, writer) ==
    IF events = <<>> THEN frame
    ELSE LET e == Head(events) IN
         Written(IF e.kind = "write"
                 THEN [c \in DOMAIN frame \cup {e.column} |->
                          IF c = e.column THEN writer ELSE frame[c]]
                 ELSE frame,
                 Tail(events), writer)

RECURSIVE Counted(_, _, _)
Counted(count, events, after) ==
    IF events = <<>> THEN count
    ELSE LET e == Head(events) IN
         Counted(CASE e.kind = "reset" -> ZeroCount
                   [] e.kind = "write" /\ e.calculator = "PowerDeviationMatrixPowerCalculator" -> after
                   [] OTHER -> count,
                 Tail(events), after)

\* the effects of one call on the program's state; fresh holds the objects
\* the call created before it, src is the parent object
Construct(class, src, s, r, fresh, after, power_curve) ==
    LET kept == IF r.outcome = "ok" THEN fresh \o <<r.self>> ELSE <<>> IN
    /\ Len(nodes) + Len(kept) <= MaxNodes
    /\ nodes' = nodes \o kept
    /\ data_frame' = Written(data_frame, r.events, Len(nodes) + Len(kept))
    /\ status' = status \o StatusOf(r.events)
    /\ pdm' = Counted(pdm, r.events, after)
    /\ last' = [class |-> class, parent |-> src, source |-> s, outcome |-> r.outcome,
                message |-> IF r.outcome = "ok" THEN "" ELSE r.message,
                events |-> r.events,
                node |-> IF r.outcome = "ok" THEN Len(nodes) + Len(kept) ELSE 0,
                power_curve |-> IF r.outcome = "ok" THEN power_curve ELSE None]

\* a chain is extended at its end
Tips == { s \in DOMAIN nodes : \A n \in DOMAIN nodes : nodes[n].source # s }

Init ==
    /\ nodes = << Source("WS") >>
    /\ data_frame = [c \in BaseColumns |-> 0]
    /\ status = <<>>
    /\ pdm = ZeroCount
    /\ last = [class |-> "Source", parent |-> Source("WS"), source |-> 0, outcome |-> "ok",
               message |-> "", events |-> <<>>, node |-> 1, power_curve |-> None]

BuildDensity ==
    \E s \in Tips, power_curve \in PowerCurves :
        Construct("Density", nodes[s], s,
                  DensityEquivalentWindSpeed(nodes[s], s, power_curve),
                  <<>>, pdm, power_curve)

BuildREWS ==
    \E s \in Tips, rews \in RewsInputs :
        Construct("REWS", nodes[s], s,
                  RotorEquivalentWindSpeed(nodes[s], s, rews, rews.power_curve),
                  <<>>, pdm, rews.power_curve)

BuildTurbulence ==
    \E s \in Tips :
        Construct("Turbulence", nodes[s], s,
                  TurbulenceCorrection(nodes[s], s, "PowerCurve"),
                  <<>>, pdm, "PowerCurve")

BuildPowerDeviationMatrix ==
    \E s \in Tips, after \in Counts :
        Construct("PDM", nodes[s], s,
                  PowerDeviationMatrixCorrection(nodes[s], s, "PowerCurve", after),
                  <<>>, after, "PowerCurve")

BuildProductionByHeight ==
    Construct("ProductionByHeight", Source(None), Len(nodes) + 1,
              ProductionByHeightCorrection("PowerCurve", Len(nodes) + 1),
              <<Source(None)>>, pdm, "PowerCurve")

BuildWebService ==
    Construct("WebService", Source(None), Len(nodes) + 1,
              WebServiceCorrection("WebService", Len(nodes) + 1),
              <<Source(None)>>, pdm, None)

\* Source.finalise of a Source with a wind speed column, called once
SourceFinalise ==
    \E s \in DOMAIN nodes, power_curve \in PowerCurves :
        /\ nodes[s].raw
        /\ nodes[s].wind_speed_column # None
        /\ ~HasAttr(nodes[s], "power_column")
        /\ LET r == SourceFinaliseCall(nodes[s], power_curve) IN
           /\ nodes' = [nodes EXCEPT ![s] = r.self]
           /\ data_frame' = Written(data_frame, r.events, s)
           /\ status' = status \o StatusOf(r.events)
           /\ last' = [class |-> "SourceFinalise", parent |-> nodes[s], source |-> 0,
                       outcome |-> "ok", message |-> "", events |-> r.events, node |-> s,
                       power_curve |-> power_curve]
           /\ UNCHANGED pdm

Next ==
    \/ BuildDensity
    \/ BuildREWS
    \/ BuildTurbulence
    \/ BuildPowerDeviationMatrix
    \/ BuildProductionByHeight
    \/ BuildWebService
    \/ SourceFinalise

Spec == Init /\ [][Next]_vars
\* ------------------------------------------------------------- properties

CorrectionClasses == {"Density", "REWS", "Turbulence", "PDM", "ProductionByHeight", "WebService"}

\* the labels a correction of the class can carry
LabelsOfClass(class) ==
    CASE class = "Density"            -> {"Density"}
      [] class = "REWS"               -> {"REWS (Speed)", "RAWS (Speed+Veer)",
                                          "REWS-Exponent=2.5 (Speed+Upflow)"}
      [] class = "Turbulence"         -> {"Turbulence"}
      [] class = "PDM"                -> {"2D Power Deviation Matrix"}
      [] class = "ProductionByHeight" -> {"Production by Height"}
      [] class = "WebService"         -> {"WebService"}
      [] OTHER                        -> {}

\* the handles from s back to the Source of its chain
RECURSIVE Ancestors(_, _)
Ancestors(arena, s) ==
    IF s = 0 THEN {} ELSE {s} \cup Ancestors(arena, arena[s].source)

\* the labels of the chain that ends in n, in construction order
RECURSIVE ChainLabels(_, _)
ChainLabels(arena, n) ==
    IF arena[n].raw THEN <<>> ELSE ChainLabels(arena, arena[n].source) \o arena[n].label

RECURSIVE CommaJoin(_)
CommaJoin(labels) ==
    IF Len(labels) <= 1 THEN labels
    ELSE <<Head(labels), ", ">> \o CommaJoin(Tail(labels))

ExpectedName(labels) ==
    IF Len(labels) = 1 THEN labels
    ELSE CommaJoin(SubSeq(labels, 1, Len(labels) - 1)) \o <<" & ", labels[Len(labels)]>>

\* C1: a correction's construction succeeds exactly when its parent is
\* wind-speed-based, and otherwise fails with the chain-validity error that
\* names the correction's label and the parent's composite name.
C1_SucceedsIffParentWindSpeedBased ==
    last.class \in CorrectionClasses =>
        /\ (last.outcome = "ok") <=> last.parent.wind_speed_based
        /\ ~last.parent.wind_speed_based =>
              /\ last.outcome = "Exception"
              /\ HasAttr(last.parent, "correction_name")
              /\ \E l \in LabelsOfClass(last.class) :
                    last.message = l \o " cannot follow " \o Str(last.parent.correction_name)

ParentIsDensityTurbulence ==
    /\ last.class = "PDM"
    /\ HasAttr(last.parent, "correction_name")
    /\ Str(last.parent.correction_name) = "Density & Turbulence"

PowerWrites(events) ==
    { i \in DOMAIN events : events[i].kind = "write" /\ events[i].calculator = "PowerCalculator" }

\* C5: a wind-speed-based node's wind speed column is its composite name plus
\* " Wind Speed"; a power-based node's power column is its composite name plus
\* " Power" and it has no wind speed column; finalise of a wind-speed-based
\* node or a Source sets power_column to "<name> Power" and writes that column
\* when a power curve is supplied, and otherwise sets it to None and writes no
\* power column.
C5_ColumnsFollowName ==
    /\ \A n \in DOMAIN nodes :
          ~nodes[n].raw =>
             IF nodes[n].wind_speed_based
             THEN nodes[n].wind_speed_column = Str(nodes[n].correction_name) \o " Wind Speed"
             ELSE /\ nodes[n].power_column = Str(nodes[n].correction_name) \o " Power"
                  /\ ~HasAttr(nodes[n], "wind_speed_column")
    /\ (last.class \in {"Density", "REWS", "SourceFinalise"} /\ last.outcome = "ok") =>
          LET self == nodes[last.node]
              name == IF self.raw THEN self.wind_speed_column ELSE Str(self.correction_name)
          IN  IF last.power_curve # None
              THEN /\ self.power_column = name \o " Power"
                   /\ self.power_column \in DOMAIN data_frame
                   /\ data_frame[self.power_column] = last.node
                   /\ \E i \in PowerWrites(last.events) :
                         last.events[i].column = self.power_column
              ELSE /\ self.power_column = None
                   /\ PowerWrites(last.events) = {}

C5_Witness ==
    /\ last.class = "Turbulence"
    /\ last.outcome = "ok"
    /\ ~last.parent.raw
    /\ last.parent.power_column # None
    /\ \E n \in DOMAIN nodes : nodes[n].raw /\ HasAttr(nodes[n], "power_column")
                                 /\ nodes[n].power_column = None

SeverityOfFraction(f) ==
    IF f > 2000 THEN "critical" ELSE IF f > 500 THEN "warning" ELSE "informational"

SeverityOfReport(report) ==
    IF report.red THEN "critical" ELSE IF report.orange THEN "warning" ELSE "informational"

\* the out-of-range reports that state the fraction f
ReportsStating(f) ==
    {"Fraction of PDM values out of range " \o Pct(f)} \cup
    { "-" \o Dimensions[d].parameter \o " values out of range " \o Pct(f)
          \o " [" \o Dimensions[d].centerOfFirstBin \o " to "
          \o Dimensions[d].centerOfLastBin \o "]" : d \in DOMAIN Dimensions }

\* C6: every out-of-range report, overall or per dimension, carries the
\* severity of the fraction it states (> 0.20 critical, > 0.05 warning, else
\* informational).
C6_SeverityOfStatedFraction ==
    \A i \in DOMAIN status : \A f \in FractionValues :
        status[i].message \in ReportsStating(f) =>
            SeverityOfReport(status[i]) = SeverityOfFraction(f)

\* C7: constructing a WebServiceCorrection always completes: the node is named
\* "WebService", the column "WebService Power" is written and completion is
\* reported.
C7_WebServiceCompletes ==
    last.class = "WebService" =>
        /\ last.outcome = "ok"
        /\ Str(nodes[last.node].correction_name) = "WebService"
        /\ "WebService Power" \in DOMAIN data_frame
        /\ status[Len(status)].message = "WebService Correction Complete."

\* C8: a construction that fails the chain-validity check changes neither the
\* dataset, the status sink, the matrix's counters nor any node.
C8_FailedCheckChangesNothing ==
    [][last'.outcome = "Exception" => UNCHANGED <<nodes, data_frame, status, pdm>>]_vars

C8_Witness ==
    /\ last.outcome = "Exception"
    /\ last.class = "PDM"
    /\ pdm # ZeroCount
    /\ status # <<>>
    /\ \E c \in DOMAIN data_frame : data_frame[c] # 0

\* C9: a successful construction checks chain validity, then reports
\* "Performing <name> Correction...", then writes its column(s), then reports
\* "<name> Correction Complete."
C9_StepOrder ==
    (last.class \in CorrectionClasses /\ last.outcome = "ok") =>
        LET ev == last.events
            name == Str(nodes[last.node].correction_name)
            writes == { i \in DOMAIN ev : ev[i].kind = "write" }
        IN  /\ ev[1].kind = "can_chain"
            /\ ev[2].kind = "status"
            /\ ev[2].message = "Performing " \o name \o " Correction..."
            /\ writes # {}
            /\ \E j \in DOMAIN ev :
                  /\ ev[j].kind = "status"
                  /\ ev[j].message = name \o " Correction Complete."
                  /\ \A i \in writes : 2 < i /\ i < j

\* C10: a successful construction never writes a column that was in the dataset
\* from the start or that an earlier stage of the same chain wrote.
C10_AppendOnly ==
    [][(last'.class \in CorrectionClasses /\ last'.outcome = "ok") =>
          \A i \in DOMAIN last'.events :
              last'.events[i].kind = "write" =>
                  ~ /\ last'.events[i].column \in DOMAIN data_frame
                    /\ data_frame[last'.events[i].column]
                          \in {0} \cup Ancestors(nodes', last'.source)]_vars
====
